---- MODULE Spec2Model ----
(***************************************************************************)
(* Model of scikits.learn.linear_model.sparse.stochastic_gradient:         *)
(* SGDClassifier (_set_coef, _fit_binary, _fit_multiclass,                 *)
(* decision_function), _train_ova_classifier and SGDRegressor (_set_coef,  *)
(* _fit_regressor, predict).                                               *)
(*                                                                         *)
(* Arrays are modelled the way numpy lays them out: a record               *)
(* [shape, data] with `data` the flat row-major buffer.  Floating point    *)
(* values are modelled by integers.  A scipy CSR matrix is the record      *)
(* [shape, data, indices, indptr].                                         *)
(***************************************************************************)
EXTENDS Integers, Sequences, FiniteSets, TLC

(***************************************************************************)
(* Bounds of the model.                                                    *)
(***************************************************************************)
NFeatures == 1      \* n_features of every matrix
MaxSamples == 2     \* a matrix has 1..MaxSamples rows
XMax == 1           \* a feature value is in 0..XMax
WMax == 2           \* the kernel saturates weights and intercepts at +-WMax
MaxCalls == 2       \* number of fit / predict calls in a behaviour
n_iter == 1         \* epochs the kernel runs (constructor parameter n_iter)

MaxClasses == 3     \* a classifier has 2..MaxClasses classes
YMax == 1           \* a regression target is in -YMax..YMax

\* Python's None.  It has the fields of an array so that it can be compared
\* with one, and differs from every array: an array's buffer is never empty.
None == [shape |-> <<>>, data |-> <<>>]

(***************************************************************************)
(* numpy helpers                                                           *)
(***************************************************************************)
RECURSIVE SumFn(_, _)
SumFn(f, S) ==
    IF S = {} THEN 0
    ELSE LET x == CHOOSE x \in S : TRUE IN f[x] + SumFn(f, S \ {x})

RECURSIVE Size(_)
Size(shape) ==
    IF shape = <<>> THEN 1 ELSE Head(shape) * Size(Tail(shape))

\* np.zeros(shape)
zeros(shape) == [shape |-> shape, data |-> [k \in 1..Size(shape) |-> 0]]

\* np.asarray(x) of a Python float: a 0-d array
asarray(x) == [shape |-> <<>>, data |-> <<x>>]

\* np.atleast_2d: a 0-d array becomes 1 x 1, a 1-d array 1 x n, others are kept
atleast_2d(a) ==
    IF Len(a.shape) = 0 THEN [shape |-> <<1, 1>>, data |-> a.data]
    ELSE IF Len(a.shape) = 1 THEN [shape |-> <<1, a.shape[1]>>, data |-> a.data]
    ELSE a

\* np.ravel: the flat buffer as a 1-d array
ravel(a) == [shape |-> <<Len(a.data)>>, data |-> a.data]

\* a[i] for a 2-d array a and a 0-based row index i: the row as a 1-d array
GetRow(a, i) ==
    LET nc == a.shape[2]
    IN  [shape |-> <<nc>>, data |-> SubSeq(a.data, i * nc + 1, (i + 1) * nc)]

\* a[i] = v for a 2-d array a, a 0-based row index i and a 1-d array v
SetRow(a, i, v) ==
    LET nc == a.shape[2]
    IN  [a EXCEPT !.data = [k \in 1..Len(a.data) |->
            IF (k - 1) \div nc = i THEN v.data[k - i * nc] ELSE a.data[k]]]

\* a[i] and a[i] = x for a 1-d array a and a 0-based index i
GetItem(a, i) == a.data[i + 1]
SetItem(a, i, x) == [a EXCEPT !.data[i + 1] = x]

(***************************************************************************)
(* scipy.sparse helpers                                                    *)
(***************************************************************************)
\* sparse.csr_matrix(a) of a dense array: the array is taken as 2-d and only
\* its nonzero entries are stored, row by row.
csr_matrix(a) ==
    LET M  == atleast_2d(a)
        nr == M.shape[1]
        nc == M.shape[2]
        nz == SelectSeq([k \in 1..(nr * nc) |-> k], LAMBDA k : M.data[k] # 0)
    IN  [shape   |-> <<nr, nc>>,
         data    |-> [j \in 1..Len(nz) |-> M.data[nz[j]]],
         indices |-> [j \in 1..Len(nz) |-> (nz[j] - 1) % nc],
         indptr  |-> [i \in 1..(nr + 1) |->
                        Cardinality({j \in 1..Len(nz) : nz[j] <= (i - 1) * nc})]]

\* the stored positions of row r (0-based) of a CSR matrix
RowNnz(S, r) == (S.indptr[r + 1] + 1)..S.indptr[r + 2]

\* S.todense(): a dense 2-d array, stored entries summed into their cell
todense(S) ==
    LET nr == S.shape[1]
        nc == S.shape[2]
    IN  [shape |-> <<nr, nc>>,
         data  |-> [k \in 1..(nr * nc) |->
              LET r == (k - 1) \div nc
                  c == (k - 1) % nc
                  J == {j \in RowNnz(S, r) : S.indices[j] = c}
              IN  SumFn(S.data, J)]]

\* np.dot(X, C.T).todense() for CSR matrices X (m x n) and C (k x n): the dense
\* m x k array whose cell (r, c) sums the products of the stored entries of
\* row r of X and row c of C that share a column.
dot_T_todense(X, C) ==
    LET nr == X.shape[1]
        nc == C.shape[1]
    IN  [shape |-> <<nr, nc>>,
         data  |-> [k \in 1..(nr * nc) |->
              LET r == (k - 1) \div nc
                  c == (k - 1) % nc
                  P == {q \in RowNnz(X, r) \X RowNnz(C, c) :
                            X.indices[q[1]] = C.indices[q[2]]}
              IN  SumFn([q \in P |-> X.data[q[1]] * C.data[q[2]]], P)]]

\* scores + intercept_: numpy broadcasts a 0-d array over every cell and a 1-d
\* array of length k over the columns of an m x k array.
add_broadcast(scores, b) ==
    LET nc == scores.shape[2]
    IN  [scores EXCEPT !.data = [k \in 1..Len(scores.data) |->
            scores.data[k] + (IF Len(b.shape) = 0 THEN b.data[1]
                              ELSE b.data[((k - 1) % nc) + 1])]]

(***************************************************************************)
(* The external SGD kernel plain_sgd (sgd_fast_sparse).  Its code is not    *)
(* part of the sources: it is modelled from its contract, a function        *)
(* (initial weights, initial intercept, loss, CSR arrays, labels, ...) ->   *)
(* (updated weights, updated intercept) that does not write to its          *)
(* arguments, and whose result is fixed by them.                            *)
(***************************************************************************)
Clip(v) == IF v > WMax THEN WMax ELSE IF v < -WMax THEN -WMax ELSE v

\* derivative of the loss with respect to the prediction, as a step direction
dloss(loss_function, p, y) ==
    IF loss_function = "hinge"
    THEN (IF p * y < 1 THEN y ELSE 0)
    ELSE (IF y > p THEN 1 ELSE IF y < p THEN -1 ELSE 0)

\* one update, on sample r (0-based) of the CSR arrays
SgdStep(st, A, r) ==
    LET J  == (A.X_indptr[r + 1] + 1)..A.X_indptr[r + 2]
        p  == SumFn([j \in J |-> st.w[A.X_indices[j] + 1] * A.X_data[j]], J) + st.b
        yv == A.y.data[r + 1]
        cw == IF yv > 0 THEN A.weight_pos ELSE A.weight_neg
        g  == dloss(A.loss_function, p, yv) * cw
    IN  [w |-> [c \in 1..Len(st.w) |->
                  LET Jc == {j \in J : A.X_indices[j] = c - 1}
                  IN  Clip(st.w[c] + g * SumFn(A.X_data, Jc))],
         b |-> IF A.fit_intercept = 1 THEN Clip(st.b + g) ELSE st.b]

RECURSIVE SgdEpoch(_, _, _, _)
SgdEpoch(st, A, ord, k) ==
    IF k > Len(ord) THEN st
    ELSE SgdEpoch(SgdStep(st, A, ord[k]), A, ord, k + 1)

RECURSIVE SgdEpochs(_, _, _, _)
SgdEpochs(st, A, ord, e) ==
    IF e > A.n_iter THEN st
    ELSE SgdEpochs(SgdEpoch(st, A, ord, 1), A, ord, e + 1)

\* the order in which an epoch visits the m samples: the given order without
\* shuffling, a permutation fixed by the seed with it
Identity(m) == [k \in 1..m |-> k - 1]
sample_order(shuffle, seed, m) ==
    IF shuffle = 1 THEN [k \in 1..m |-> (k + seed) % m] ELSE Identity(m)

plain_sgd(A) ==
    LET ord == sample_order(A.shuffle, A.seed, Len(A.X_indptr) - 1)
        st  == SgdEpochs([w |-> A.w.data, b |-> A.intercept], A, ord, 1)
    IN  [coef |-> [shape |-> <<Len(st.w)>>, data |-> st.w], intercept |-> st.b]

(***************************************************************************)
(* Inputs                                                                  *)
(***************************************************************************)
\* dense feature matrices, m x NFeatures
Matrices ==
    UNION {{[shape |-> <<m, NFeatures>>, data |-> d] :
                d \in [1..(m * NFeatures) -> 0..XMax]} : m \in 1..MaxSamples}

\* a CSR matrix that stores every cell of M, zeros included
csr_explicit(M) ==
    LET nr == M.shape[1]
        nc == M.shape[2]
    IN  [shape   |-> <<nr, nc>>,
         data    |-> M.data,
         indices |-> [j \in 1..(nr * nc) |-> (j - 1) % nc],
         indptr  |-> [i \in 1..(nr + 1) |-> (i - 1) * nc]]

\* what a caller may pass as X to decision_function / predict
PredictInputs(M) == {M, csr_matrix(M), csr_explicit(M)}

\* sparse.issparse(X)
issparse(X) == "indptr" \in DOMAIN X

\* the class list of a classifier with k classes: its sorted distinct labels
Labels(k) == [shape |-> <<k>>, data |-> [i \in 1..k |-> 2 * i + 1]]

\* label vectors over the class list, and target vectors, for m samples
LabelVectors(cl, m) ==
    {[shape |-> <<m>>, data |-> d] : d \in [1..m -> {cl.data[i] : i \in 1..Len(cl.data)}]}
TargetVectors(m) ==
    {[shape |-> <<m>>, data |-> d] : d \in [1..m -> (-YMax)..YMax]}

\* int(flag)
int(b) == IF b THEN 1 ELSE 0

\* self.class_weight: one weight per class, all ones
class_weight == [i \in 0..MaxClasses |-> 1]

(***************************************************************************)
(* State                                                                   *)
(***************************************************************************)
VARIABLES
    estimator,      \* "SGDClassifier" or "SGDRegressor"
    params,         \* constructor parameters: shuffle, fit_intercept, seed
    classes,        \* self.classes (None until allocated, and for a regressor)
    coef_,          \* self.coef_
    intercept_,     \* self.intercept_
    sparse_coef_,   \* self.sparse_coef_
    pc,             \* "idle", or the position inside _fit_multiclass
    tasks,          \* one-vs-all sub-tasks: class index -> status, kernel calls
    res,            \* results of the sub-tasks, in the order they were collected
    wb,             \* number of results of res written back
    ncalls,         \* calls made so far
    \* history of the current / last call
    op,             \* its name
    outcome,        \* "ok", "error", "running" (or "none" before the first)
    cur_X,          \* its X as converted to CSR
    cur_y,          \* its y
    pre,            \* coef_, intercept_, sparse_coef_ when it started
    handed,         \* the arguments it handed to the kernel, per task index
    kout,           \* what the kernel returned to it, per task index
    left,           \* coef_, intercept_ as the last ended fit call left them
    fits,           \* the last two binary fit calls, oldest first
    scores,         \* the value decision_function / predict returned
    rebuilds        \* _set_coef calls made by the current / last call

vars == <<estimator, params, classes, coef_, intercept_, sparse_coef_, pc, tasks,
          res, wb, ncalls, op, outcome, cur_X, cur_y, pre, handed, kout, left,
          fits, scores, rebuilds>>

config == <<estimator, params>>
model == <<coef_, intercept_, sparse_coef_>>
ova == <<tasks, res, wb>>

Snapshot == [coef_ |-> coef_, intercept_ |-> intercept_, sparse_coef_ |-> sparse_coef_]

\* _set_coef as it would be if it built sparse_coef_ only the first time
_set_coef_stale(c) ==
    [coef_        |-> c,
     sparse_coef_ |-> IF c = None THEN None
                      ELSE IF sparse_coef_ = None THEN csr_matrix(c)
                      ELSE sparse_coef_]

\* _set_coef: coef_ and sparse_coef_ after the call
_set_coef(c) ==
    [coef_        |-> c,
     sparse_coef_ |-> IF c = None THEN None ELSE csr_matrix(c)]

Init ==
    /\ estimator \in {"SGDClassifier", "SGDRegressor"}
    /\ params \in [shuffle : BOOLEAN, fit_intercept : {TRUE}, seed : {0}]
    /\ classes = None
    /\ coef_ = _set_coef(None).coef_
    /\ sparse_coef_ = _set_coef(None).sparse_coef_
    /\ intercept_ = None
    /\ pc = "idle"
    /\ tasks = <<>>
    /\ res = <<>>
    /\ wb = 0
    /\ ncalls = 0
    /\ op = "none"
    /\ outcome = "none"
    /\ cur_X = None
    /\ cur_y = None
    /\ pre = None
    /\ handed = <<>>
    /\ kout = <<>>
    /\ left = None
    /\ fits = <<>>
    /\ scores = None
    /\ rebuilds = 0

\* Allocation of the parameters before the first fit: zero weights and
\* intercepts, one weight vector for a binary classifier or a regressor, one
\* row per class for a multiclass classifier.
allocate(k) ==
    /\ pc = "idle"
    /\ coef_ = None
    /\ IF estimator = "SGDClassifier" THEN k \in 2..MaxClasses ELSE k = 1
    /\ LET c  == IF k > 2 THEN zeros(<<k, NFeatures>>) ELSE zeros(<<NFeatures>>)
           b  == IF k > 2 THEN zeros(<<k>>) ELSE asarray(0)
           sc == _set_coef(c)
       IN  /\ coef_' = sc.coef_
           /\ sparse_coef_' = sc.sparse_coef_
           /\ intercept_' = b
           /\ left' = [coef_ |-> c, intercept_ |-> b]
    /\ classes' = IF estimator = "SGDClassifier" THEN Labels(k) ELSE None
    /\ op' = "allocate"
    /\ rebuilds' = 1
    /\ outcome' = "ok"
    /\ UNCHANGED <<config, pc, ova, ncalls, cur_X, cur_y, pre, handed, kout,
                   fits, scores>>

(***************************************************************************)
(* SGDClassifier._fit_binary                                               *)
(***************************************************************************)
\* encode_labels with the two values exchanged
encode_labels_inverted(y, c) ==
    [shape |-> y.shape,
     data  |-> [k \in 1..Len(y.data) |-> IF y.data[k] = c THEN -1 ELSE 1]]

\* the +1.0 / -1.0 label vector: np.ones(y.shape) * -1.0, then 1.0 where y == c
encode_labels(y, c) ==
    [shape |-> y.shape,
     data  |-> [k \in 1..Len(y.data) |-> IF y.data[k] = c THEN 1 ELSE -1]]

\* fit_binary_args as it would be if a fit started from zero weights
fit_binary_args_reset(Xs, y) ==
    [w             |-> zeros(<<NFeatures>>),
     intercept     |-> 0,
     loss_function |-> "hinge",
     X_data        |-> Xs.data,
     X_indices     |-> Xs.indices,
     X_indptr      |-> Xs.indptr,
     y             |-> [shape |-> y.shape,
                        data  |-> [k \in 1..Len(y.data) |->
                                    IF y.data[k] = GetItem(classes, 1) THEN 1 ELSE -1]],
     n_iter        |-> n_iter,
     fit_intercept |-> int(params.fit_intercept),
     shuffle       |-> int(params.shuffle),
     seed          |-> params.seed,
     weight_pos    |-> class_weight[1],
     weight_neg    |-> class_weight[0]]

\* fit_binary_args as it would be if the epoch count grew with every call
fit_binary_args_epochs(Xs, y) ==
    [w             |-> coef_,
     intercept     |-> intercept_.data[1],
     loss_function |-> "hinge",
     X_data        |-> Xs.data,
     X_indices     |-> Xs.indices,
     X_indptr      |-> Xs.indptr,
     y             |-> [shape |-> y.shape,
                        data  |-> [k \in 1..Len(y.data) |->
                                    IF y.data[k] = GetItem(classes, 1) THEN 1 ELSE -1]],
     n_iter        |-> n_iter + ncalls,
     fit_intercept |-> int(params.fit_intercept),
     shuffle       |-> int(params.shuffle),
     seed          |-> params.seed,
     weight_pos    |-> class_weight[1],
     weight_neg    |-> class_weight[0]]

\* the arguments of the plain_sgd call of _fit_binary
fit_binary_args(Xs, y) ==
    [w             |-> coef_,
     intercept     |-> intercept_.data[1],
     loss_function |-> "hinge",
     X_data        |-> Xs.data,
     X_indices     |-> Xs.indices,
     X_indptr      |-> Xs.indptr,
     y             |-> encode_labels(y, GetItem(classes, 1)),
     n_iter        |-> n_iter,
     fit_intercept |-> int(params.fit_intercept),
     shuffle       |-> int(params.shuffle),
     seed          |-> params.seed,
     weight_pos    |-> class_weight[1],
     weight_neg    |-> class_weight[0]]

\* the record kept of a binary fit call
FitRecord(Xs, y, A, r, ok) ==
    [X |-> Xs, y |-> y, start |-> [coef_ |-> coef_, intercept_ |-> intercept_],
     args |-> A, out |-> r, ok |-> ok]
Remember(f) == IF Len(fits) = 2 THEN <<fits[2], f>> ELSE Append(fits, f)

fit_binary(X, y, fail) ==
    /\ pc = "idle"
    /\ estimator = "SGDClassifier"
    /\ coef_ # None
    /\ Len(classes.data) = 2
    /\ ncalls < MaxCalls
    /\ LET Xs == csr_matrix(X)
           A  == fit_binary_args(Xs, y)
           r  == plain_sgd(A)
           sc == _set_coef(atleast_2d(coef_))
       IN  /\ cur_X' = Xs
           /\ handed' = [i \in {0} |-> A]
           /\ fits' = Remember(FitRecord(Xs, y, A, r, ~fail))
           /\ IF fail
              THEN /\ UNCHANGED <<model, left>>
                   /\ kout' = <<>>
                   /\ rebuilds' = 0
                   /\ outcome' = "error"
              ELSE /\ coef_' = sc.coef_
                   /\ sparse_coef_' = sc.sparse_coef_
                   /\ intercept_' = asarray(r.intercept)
                   /\ left' = [coef_ |-> sc.coef_, intercept_ |-> asarray(r.intercept)]
                   /\ kout' = [i \in {0} |-> r]
                   /\ rebuilds' = 1
                   /\ outcome' = "ok"
    /\ cur_y' = y
    /\ pre' = Snapshot
    /\ op' = "fit_binary"
    /\ ncalls' = ncalls + 1
    /\ scores' = None
    /\ UNCHANGED <<config, classes, pc, ova>>

(***************************************************************************)
(* SGDRegressor._fit_regressor                                             *)
(***************************************************************************)
fit_regressor_args(Xs, y) ==
    [w             |-> coef_,
     intercept     |-> intercept_.data[1],
     loss_function |-> "squared_loss",
     X_data        |-> Xs.data,
     X_indices     |-> Xs.indices,
     X_indptr      |-> Xs.indptr,
     y             |-> y,
     n_iter        |-> n_iter,
     fit_intercept |-> int(params.fit_intercept),
     shuffle       |-> int(params.shuffle),
     seed          |-> params.seed,
     weight_pos    |-> 1,
     weight_neg    |-> 1]

fit_regressor(X, y, fail) ==
    /\ pc = "idle"
    /\ estimator = "SGDRegressor"
    /\ coef_ # None
    /\ ncalls < MaxCalls
    /\ LET Xs == csr_matrix(X)
           A  == fit_regressor_args(Xs, y)
           r  == plain_sgd(A)
           sc == _set_coef(coef_)
       IN  /\ cur_X' = Xs
           /\ handed' = [i \in {0} |-> A]
           /\ IF fail
              THEN /\ UNCHANGED <<model, left>>
                   /\ kout' = <<>>
                   /\ rebuilds' = 0
                   /\ outcome' = "error"
              ELSE /\ coef_' = sc.coef_
                   /\ sparse_coef_' = sc.sparse_coef_
                   /\ intercept_' = asarray(r.intercept)
                   /\ left' = [coef_ |-> sc.coef_, intercept_ |-> asarray(r.intercept)]
                   /\ kout' = [i \in {0} |-> r]
                   /\ rebuilds' = 1
                   /\ outcome' = "ok"
    /\ cur_y' = y
    /\ pre' = Snapshot
    /\ op' = "fit_regressor"
    /\ ncalls' = ncalls + 1
    /\ scores' = None
    /\ UNCHANGED <<config, classes, pc, ova, fits>>

(***************************************************************************)
(* SGDClassifier._fit_multiclass and _train_ova_classifier                 *)
(***************************************************************************)
\* the arguments of the plain_sgd call of the sub-task for class index i with
\* label c: what _fit_multiclass passes on, and the label vector y_i
train_ova_args(i, c, Xs, y) ==
    [w             |-> GetRow(coef_, i),
     intercept     |-> GetItem(intercept_, i),
     loss_function |-> "hinge",
     X_data        |-> Xs.data,
     X_indices     |-> Xs.indices,
     X_indptr      |-> Xs.indptr,
     y             |-> encode_labels(y, c),
     n_iter        |-> n_iter,
     fit_intercept |-> int(params.fit_intercept),
     shuffle       |-> int(params.shuffle),
     seed          |-> params.seed,
     weight_pos    |-> class_weight[i],
     weight_neg    |-> 1]

\* the value _train_ova_classifier returns: (i, coef, intercept)
_train_ova_classifier(i, A) ==
    LET r == plain_sgd(A) IN <<i, r.coef, r.intercept>>

\* write_result as it would be if it wrote to the position in res
write_result_by_position(c, b, pos, item) ==
    [coef_      |-> SetRow(c, pos, item[2]),
     intercept_ |-> SetItem(b, pos, item[3])]

\* one round of the loop `for i, coef, intercept in res`, on the item at
\* position pos (0-based) of res
write_result(c, b, pos, item) ==
    [coef_      |-> SetRow(c, item[1], item[2]),
     intercept_ |-> SetItem(b, item[1], item[3])]

ClassIndices == 0..(Len(classes.data) - 1)

\* _fit_multiclass up to the dispatch of the sub-tasks to Parallel
fit_multiclass_start(X, y) ==
    /\ pc = "idle"
    /\ estimator = "SGDClassifier"
    /\ coef_ # None
    /\ Len(classes.data) > 2
    /\ ncalls < MaxCalls
    /\ LET Xs == csr_matrix(X)
       IN  /\ cur_X' = Xs
           /\ handed' = [i \in ClassIndices |->
                            train_ova_args(i, GetItem(classes, i), Xs, y)]
    /\ tasks' = [i \in ClassIndices |-> [status |-> "pending", calls |-> 0]]
    /\ res' = <<>>
    /\ wb' = 0
    /\ pc' = "dispatch"
    /\ cur_y' = y
    /\ pre' = Snapshot
    /\ op' = "fit_multiclass"
    /\ outcome' = "running"
    /\ rebuilds' = 0
    /\ kout' = <<>>
    /\ ncalls' = ncalls + 1
    /\ scores' = None
    /\ UNCHANGED <<config, classes, model, left, fits>>

\* a sub-task runs to its end and its result is collected
train_ova_run(i) ==
    /\ pc = "dispatch"
    /\ i \in DOMAIN tasks
    /\ tasks[i].status = "pending"
    /\ tasks' = [tasks EXCEPT ![i] = [status |-> "done", calls |-> @.calls + 1]]
    /\ res' = Append(res, _train_ova_classifier(i, handed[i]))
    /\ pc' = IF \A j \in DOMAIN tasks : j # i => tasks[j].status = "done"
             THEN "write_back" ELSE "dispatch"
    /\ UNCHANGED <<rebuilds, config, classes, model, wb, ncalls, op, outcome, cur_X, cur_y,
                   pre, handed, kout, left, fits, scores>>

\* train_ova_fail as it would be if the failure were swallowed and the fit
\* went on with the results of the other sub-tasks
train_ova_fail_swallowed(i) ==
    /\ pc = "dispatch"
    /\ i \in DOMAIN tasks
    /\ tasks[i].status = "pending"
    /\ tasks' = [tasks EXCEPT ![i] = [status |-> "failed", calls |-> @.calls + 1]]
    /\ pc' = IF \A j \in DOMAIN tasks : j # i => tasks[j].status # "pending"
             THEN "write_back" ELSE "dispatch"
    /\ UNCHANGED <<rebuilds, config, classes, model, res, wb, ncalls, op, outcome, cur_X,
                   cur_y, pre, handed, kout, left, fits, scores>>

\* the kernel call of a sub-task raises: the exception leaves Parallel and
\* _fit_multiclass, and the results collected so far are dropped
train_ova_fail(i) ==
    /\ pc = "dispatch"
    /\ i \in DOMAIN tasks
    /\ tasks[i].status = "pending"
    /\ tasks' = [tasks EXCEPT ![i] = [status |-> "failed", calls |-> @.calls + 1]]
    /\ res' = <<>>
    /\ pc' = "idle"
    /\ outcome' = "error"
    /\ UNCHANGED <<rebuilds, config, classes, model, wb, ncalls, op, cur_X, cur_y, pre,
                   handed, kout, left, fits, scores>>

\* write_back as it would be if every round of the loop called _set_coef
write_back_rebuilding ==
    /\ pc = "write_back"
    /\ wb < Len(res)
    /\ LET w  == write_result(coef_, intercept_, wb, res[wb + 1])
           sc == _set_coef(w.coef_)
       IN  /\ coef_' = sc.coef_
           /\ sparse_coef_' = sc.sparse_coef_
           /\ intercept_' = w.intercept_
    /\ wb' = wb + 1
    /\ rebuilds' = rebuilds + 1
    /\ UNCHANGED <<config, classes, pc, tasks, res, ncalls, op, outcome, cur_X,
                   cur_y, pre, handed, kout, left, fits, scores>>

\* one round of the write-back loop
write_back ==
    /\ pc = "write_back"
    /\ wb < Len(res)
    /\ LET w == write_result(coef_, intercept_, wb, res[wb + 1])
       IN  /\ coef_' = w.coef_
           /\ intercept_' = w.intercept_
    /\ wb' = wb + 1
    /\ UNCHANGED <<rebuilds, config, classes, sparse_coef_, pc, tasks, res, ncalls, op,
                   outcome, cur_X, cur_y, pre, handed, kout, left, fits, scores>>

\* after the loop: self._set_coef(self.coef_); self.intercept_ = self.intercept_
fit_multiclass_finish ==
    /\ pc = "write_back"
    /\ wb = Len(res)
    /\ LET sc == _set_coef(coef_)
       IN  /\ coef_' = sc.coef_
           /\ sparse_coef_' = sc.sparse_coef_
           /\ intercept_' = intercept_
           /\ left' = [coef_ |-> sc.coef_, intercept_ |-> intercept_]
    /\ pc' = "idle"
    /\ outcome' = "ok"
    /\ rebuilds' = rebuilds + 1
    /\ UNCHANGED <<config, classes, ova, ncalls, op, cur_X, cur_y, pre, handed,
                   kout, fits, scores>>

(***************************************************************************)
(* SGDClassifier.decision_function and SGDRegressor.predict                *)
(***************************************************************************)
\* decision_function_scores as it would be if it flattened every result
decision_function_scores_flat(Xs) ==
    ravel(add_broadcast(dot_T_todense(Xs, sparse_coef_), intercept_))

\* the value decision_function returns for a CSR matrix Xs
decision_function_scores(Xs) ==
    LET sc == add_broadcast(dot_T_todense(Xs, sparse_coef_), intercept_)
    IN  IF classes.shape[1] = 2 THEN ravel(sc) ELSE sc

\* predict_scores as it would be without the intercept
predict_scores_no_intercept(Xs) ==
    ravel(dot_T_todense(Xs, sparse_coef_))

\* the value predict returns for a CSR matrix Xs
predict_scores(Xs) ==
    ravel(add_broadcast(dot_T_todense(Xs, sparse_coef_), intercept_))

\* decision_function as it would be if the converted X were stored in
\* sparse_coef_
decision_function_clobber(X) ==
    /\ pc = "idle"
    /\ estimator = "SGDClassifier"
    /\ ncalls < MaxCalls
    /\ LET Xs == IF ~issparse(X) THEN csr_matrix(X) ELSE X
       IN  /\ cur_X' = Xs
           /\ sparse_coef_' = Xs
           /\ IF sparse_coef_ = None
              THEN scores' = None /\ outcome' = "error"
              ELSE scores' = ravel(Xs) /\ outcome' = "ok"
    /\ cur_y' = None
    /\ pre' = Snapshot
    /\ op' = "decision_function"
    /\ handed' = <<>>
    /\ kout' = <<>>
    /\ rebuilds' = 0
    /\ ncalls' = ncalls + 1
    /\ UNCHANGED <<config, classes, coef_, intercept_, pc, ova, left, fits>>

\* with sparse_coef_ still None, `self.sparse_coef_.T` raises
decision_function(X) ==
    /\ pc = "idle"
    /\ estimator = "SGDClassifier"
    /\ ncalls < MaxCalls
    /\ LET Xs == IF ~issparse(X) THEN csr_matrix(X) ELSE X
       IN  /\ cur_X' = Xs
           /\ IF sparse_coef_ = None
              THEN scores' = None /\ outcome' = "error"
              ELSE scores' = decision_function_scores(Xs) /\ outcome' = "ok"
    /\ cur_y' = None
    /\ pre' = Snapshot
    /\ op' = "decision_function"
    /\ handed' = <<>>
    /\ kout' = <<>>
    /\ rebuilds' = 0
    /\ ncalls' = ncalls + 1
    /\ UNCHANGED <<config, classes, model, pc, ova, left, fits>>

predict(X) ==
    /\ pc = "idle"
    /\ estimator = "SGDRegressor"
    /\ ncalls < MaxCalls
    /\ LET Xs == IF ~issparse(X) THEN csr_matrix(X) ELSE X
       IN  /\ cur_X' = Xs
           /\ IF sparse_coef_ = None
              THEN scores' = None /\ outcome' = "error"
              ELSE scores' = predict_scores(Xs) /\ outcome' = "ok"
    /\ cur_y' = None
    /\ pre' = Snapshot
    /\ op' = "predict"
    /\ handed' = <<>>
    /\ kout' = <<>>
    /\ rebuilds' = 0
    /\ ncalls' = ncalls + 1
    /\ UNCHANGED <<config, classes, model, pc, ova, left, fits>>

(***************************************************************************)
(* Specification                                                           *)
(***************************************************************************)
Next ==
    \/ \E k \in 1..MaxClasses : allocate(k)
    \/ \E X \in Matrices, fail \in BOOLEAN :
          \E y \in LabelVectors(classes, X.shape[1]) : fit_binary(X, y, fail)
    \/ \E X \in Matrices, fail \in BOOLEAN :
          \E y \in TargetVectors(X.shape[1]) : fit_regressor(X, y, fail)
    \/ \E X \in Matrices :
          \E y \in LabelVectors(classes, X.shape[1]) : fit_multiclass_start(X, y)
    \/ \E i \in 0..(MaxClasses - 1) : train_ova_run(i)
    \/ \E i \in 0..(MaxClasses - 1) : train_ova_fail(i)
    \/ write_back
    \/ fit_multiclass_finish
    \/ \E M \in Matrices : \E X \in PredictInputs(M) : decision_function(X)
    \/ \E M \in Matrices : \E X \in PredictInputs(M) : predict(X)

Spec == Init /\ [][Next]_vars

(***************************************************************************)
(* Properties                                                              *)
(***************************************************************************)
NClasses == Len(classes.data)
Rows(a) == 0..(a.shape[1] - 1)
FitOk(name) == op = name /\ outcome = "ok" /\ pc = "idle"

\* row r (0-based) of the dense form of a CSR matrix, as a sequence
DenseRow(S, r) == GetRow(todense(S), r).data

\* the dot product of a sequence x with row k (0-based) of the dense coef_
DotCoef(x, k) ==
    LET row == GetRow(atleast_2d(coef_), k).data
    IN  SumFn([c \in 1..Len(x) |-> x[c] * row[c]], 1..Len(x))

\* C1: outside the write-back loop of a multiclass fit, that is between any
\* two calls and also after a failed call, sparse_coef_ is None exactly when
\* coef_ is None, and otherwise its dense form is coef_ (taken as 2-d, the
\* only form a sparse matrix has).
C1_SparseCoefFaithful ==
    pc # "write_back" =>
        IF coef_ = None THEN sparse_coef_ = None
        ELSE sparse_coef_ # None /\ todense(sparse_coef_) = atleast_2d(coef_)

C1_Witness ==
    /\ FitOk("fit_multiclass")
    /\ \E k \in 1..Len(coef_.data) : coef_.data[k] # 0
    /\ \E k \in 1..Len(coef_.data) : coef_.data[k] = 0
    /\ coef_ # pre.coef_

\* C2: after a multiclass fit, row i of coef_ and entry i of intercept_ are
\* the result of the sub-task started for class index i, in whatever order
\* the results were collected and written back.
C2_OvaOrderIndependent ==
    FitOk("fit_multiclass") =>
        \A i \in ClassIndices :
            /\ GetRow(coef_, i) = plain_sgd(handed[i]).coef
            /\ GetItem(intercept_, i) = plain_sgd(handed[i]).intercept

C2_Witness ==
    /\ FitOk("fit_multiclass")
    /\ res[1][1] # 0
    /\ res[2][1] = 0
    /\ plain_sgd(handed[0]) # plain_sgd(handed[res[1][1]])

\* C3: in a multiclass fit, once the kernel call of a sub-task has failed the
\* call has ended with an error, no kernel call was repeated, and coef_,
\* intercept_ and sparse_coef_ are what they were when the call started.
C3_OvaFailureIsFatal ==
    (op = "fit_multiclass" /\ \E i \in DOMAIN tasks : tasks[i].status = "failed") =>
        /\ pc = "idle"
        /\ outcome = "error"
        /\ \A i \in DOMAIN tasks : tasks[i].calls <= 1
        /\ Snapshot = pre

C3_Witness ==
    /\ op = "fit_multiclass"
    /\ outcome = "error"
    /\ \E i, j \in DOMAIN tasks :
          /\ tasks[i].status = "failed"
          /\ tasks[j].status = "done"
          /\ plain_sgd(handed[j]).coef # GetRow(pre.coef_, j)

\* C4: after a binary fit, coef_ is the weight vector the kernel returned, as
\* a 1 x n_features array, intercept_ is the intercept it returned, and
\* sparse_coef_ is built from that coef_.
C4_BinaryFitStoresKernelResult ==
    FitOk("fit_binary") =>
        /\ coef_ = atleast_2d(kout[0].coef)
        /\ intercept_ = asarray(kout[0].intercept)
        /\ sparse_coef_ = csr_matrix(coef_)

\* C5: a decision_function or predict call leaves coef_, intercept_ and
\* sparse_coef_ as they are.
C5_PredictIsPure ==
    [][(op' \in {"decision_function", "predict"} /\ ncalls' = ncalls + 1)
          => UNCHANGED <<coef_, intercept_, sparse_coef_>>]_vars

C5_Witness ==
    /\ op = "decision_function"
    /\ outcome = "ok"
    /\ ncalls = 2
    /\ \E k \in 1..Len(intercept_.data) : intercept_.data[k] # 0
    /\ \E k \in 1..Len(cur_X.data) : cur_X.data[k] # 0
    /\ sparse_coef_ # cur_X

\* C6: a fit call hands to the kernel the weights and the intercept that the
\* last fit call before it (or the allocation) left: the whole coef_ and
\* intercept_ in a binary or regressor fit, row i and entry i in the sub-task
\* for class index i of a multiclass fit.
C6_WarmStart ==
    [][(ncalls' = ncalls + 1 /\ op' \in {"fit_binary", "fit_regressor", "fit_multiclass"})
          => \A i \in DOMAIN handed' :
                IF op' = "fit_multiclass"
                THEN /\ handed'[i].w = GetRow(left.coef_, i)
                     /\ handed'[i].intercept = GetItem(left.intercept_, i)
                ELSE /\ handed'[i].w = left.coef_
                     /\ handed'[i].intercept = left.intercept_.data[1]]_vars

C6_Witness ==
    /\ op = "fit_multiclass"
    /\ ncalls = 2
    /\ \E i \in DOMAIN handed : handed[i].w.data[1] # 0 /\ handed[i].intercept # 0
    /\ \E i \in DOMAIN handed : handed[i].w.data[1] = 0

SameData(f, g) == f.ok /\ g.ok /\ f.X = g.X /\ f.y = g.y

\* the same weight values (whether held as n_features or as 1 x n_features)
\* and the same intercept at the start of two calls
SameStart(f, g) ==
    /\ atleast_2d(f.start.coef_) = atleast_2d(g.start.coef_)
    /\ f.start.intercept_ = g.start.intercept_

C8_LabelsEncoded ==
    op \in {"fit_binary", "fit_multiclass"} =>
        \A i \in DOMAIN handed :
            LET c  == IF op = "fit_binary" THEN GetItem(classes, 1)
                      ELSE GetItem(classes, i)
                yv == handed[i].y
            IN  /\ yv.shape = <<cur_X.shape[1]>>
                /\ Len(yv.data) = cur_X.shape[1]
                /\ \A k \in 1..Len(yv.data) :
                      /\ yv.data[k] \in {1, -1}
                      /\ yv.data[k] = 1 <=> cur_y.data[k] = c

C8_Witness ==
    /\ op = "fit_multiclass"
    /\ \E i \in DOMAIN handed : handed[i].y.data = <<1, -1>>
    /\ \E i \in DOMAIN handed : handed[i].y.data = <<-1, -1>>

\* C9: decision_function returns a 1-d array of length n_samples for two
\* classes, and for more an n_samples x n_classes array whose cell (r, k) is
\* row r of X dotted with coef_[k], plus intercept_[k].
C9_DecisionShape ==
    (op = "decision_function" /\ outcome = "ok") =>
        IF NClasses = 2
        THEN scores.shape = <<cur_X.shape[1]>> /\ Len(scores.data) = cur_X.shape[1]
        ELSE /\ scores.shape = <<cur_X.shape[1], NClasses>>
             /\ Len(scores.data) = cur_X.shape[1] * NClasses
             /\ \A r \in Rows(cur_X), k \in ClassIndices :
                   scores.data[r * NClasses + k + 1]
                       = DotCoef(DenseRow(cur_X, r), k) + GetItem(intercept_, k)

C9_Witness ==
    /\ op = "decision_function"
    /\ outcome = "ok"
    /\ NClasses > 2
    /\ cur_X.shape[1] = 2
    /\ \E r \in Rows(cur_X), k \in ClassIndices :
          DotCoef(DenseRow(cur_X, r), k) # 0 /\ GetItem(intercept_, k) # 0

ZeroRow(S, r) == \A c \in 1..S.shape[2] : DenseRow(S, r)[c] = 0

\* C10: the score of an all-zero row is intercept_: the one intercept for a
\* binary classifier or a regressor, the intercept of each class otherwise.
C10_ZeroRowGivesIntercept ==
    (op \in {"decision_function", "predict"} /\ outcome = "ok") =>
        \A r \in Rows(cur_X) :
            ZeroRow(cur_X, r) =>
                IF Len(scores.shape) = 1
                THEN scores.data[r + 1] = intercept_.data[1]
                ELSE \A k \in ClassIndices :
                        scores.data[r * NClasses + k + 1] = GetItem(intercept_, k)

C10_Witness ==
    /\ op = "predict"
    /\ outcome = "ok"
    /\ intercept_.data[1] # 0
    /\ Len(cur_X.data) = 2
    /\ ZeroRow(cur_X, 0)
    /\ ~ZeroRow(cur_X, 1)

\* C11: in a multiclass fit sparse_coef_ is not rebuilt while the sub-tasks
\* run or while their results are written back; when the fit has returned it
\* has been rebuilt exactly once, all K sub-tasks are done, all K results are
\* written back, and sparse_coef_ is the CSR form of the whole coef_, whose
\* K rows are the K results.
C11_SparseRebuiltOnceAtEnd ==
    op = "fit_multiclass" =>
        /\ pc \in {"dispatch", "write_back"} =>
              rebuilds = 0 /\ sparse_coef_ = pre.sparse_coef_
        /\ (pc = "idle" /\ outcome = "ok") =>
              /\ rebuilds = 1
              /\ \A i \in ClassIndices : tasks[i].status = "done"
              /\ Len(res) = NClasses
              /\ wb = NClasses
              /\ sparse_coef_ = csr_matrix(coef_)
              /\ sparse_coef_.shape = <<NClasses, NFeatures>>
              /\ \A i \in ClassIndices :
                    GetRow(todense(sparse_coef_), i) = plain_sgd(handed[i]).coef

C11_Witness ==
    /\ FitOk("fit_multiclass")
    /\ rebuilds = 1
    /\ ncalls = 2
    /\ sparse_coef_ # pre.sparse_coef_
    /\ Len(pre.sparse_coef_.data) >= 1
    /\ Len(sparse_coef_.data) >= 2

====
